---- MODULE Spec2Model ----
(***************************************************************************)
(* A model of the BM25 retrieval pipeline of the repository:               *)
(*   index_small_corpus.py    (normalizer, indexer, index file writer)     *)
(*   query_small_corpus.py    (normalizer, query engine, result records)   *)
(*   evaluate_small_corpus.py / evaluate_large_corpus.py (qrels, metrics)  *)
(*                                                                         *)
(* Python dicts keep insertion order, and the program relies on it, so a   *)
(* dict is modelled as a sequence of <<key, value>> pairs with distinct    *)
(* keys.  A str is a sequence of one-character strings.  A float64 is a    *)
(* fixed-point integer (the value times Scale).                            *)
(***************************************************************************)
EXTENDS Integers, Sequences, FiniteSets, TLC

VARIABLES
    pc,                  \* position of the running program
    stopwords,           \* the stopword list, as loaded
    raw_words,           \* the whitespace-free pieces the input text was made of
    query,               \* the text handed to process_query / content.split()
    processed_docs,      \* result of process_docs on {"1": query.split()}
    processed_query,     \* result of process_query
    renormalized,        \* process_query on the whitespace-joined processed_query
    documents,           \* indexer: processed documents (name -> terms)
    inverted_index,      \* indexer: build_inverted_document_index's result
    idf,                 \* indexer: compute_idf's result
    weights_index,       \* indexer: build_bm25_weight_index's result
    index_file,          \* the text of the index file (JSON members)
    built_index,         \* query program: the index after json.load
    loaded_index,        \* the index as it was when json.load returned
    relevant_documents,  \* find_relevant_documents' result
    memory_documents,    \* the same query answered on the in-memory weights_index
    output,              \* format_output's records
    mode,                \* "automatic" | "interactive"
    error,               \* "" or the exception that ended the program
    qrels_lines,         \* evaluator: the lines of qrels.txt not yet consumed
    consumed,            \* evaluator: the lines of qrels.txt already consumed
    current_query_id,    \* evaluator: loader's current_query_id
    relevance_judgments, \* evaluator: the loaded qrels map
    queries_result,      \* evaluator: the loaded results map
    metric,              \* evaluator: value returned by the metric last called
    cutoff               \* evaluator: the k handed to the metric last called

vars == <<pc, stopwords, raw_words, query, processed_docs, processed_query,
          renormalized, documents, inverted_index, idf, weights_index,
          index_file, built_index, loaded_index, relevant_documents,
          memory_documents, output, mode, error, qrels_lines, consumed,
          current_query_id, relevance_judgments, queries_result, metric,
          cutoff>>

normVars  == <<stopwords, raw_words, query, processed_docs, processed_query,
               renormalized>>
indexVars == <<documents, inverted_index, idf, weights_index, index_file>>
queryVars == <<built_index, loaded_index, relevant_documents,
               memory_documents, output, mode>>
evalVars  == <<qrels_lines, consumed, current_query_id, relevance_judgments,
               queries_result, metric, cutoff>>

(***************************************************************************)
(* Bounds of the model.                                                    *)
(***************************************************************************)
MaxWords == 3        \* pieces of an input text of the normalizer
NumDocs == 16        \* documents of the corpus behind a loaded index file
MaxQueryWords == 2   \* words of a query text
MaxDocs == 2         \* documents of a corpus handed to the indexer
MaxDocLen == 2       \* terms of a processed document
Scale == 10000       \* a float64 x is the integer x * Scale, cut off
LnTerms == 12        \* terms of the series that stands for math.log
MaxQrelsLines == 3   \* lines of a qrels file
MaxRetrieved == 4    \* records of a query in a results file

(***************************************************************************)
(* Python dict, insertion ordered: a sequence of <<key, value>> pairs.     *)
(***************************************************************************)
Range(s) == { s[i] : i \in 1..Len(s) }

Keys(d) == { d[i][1] : i \in 1..Len(d) }

KeyList(d) == [ i \in 1..Len(d) |-> d[i][1] ]

Values(d) == [ i \in 1..Len(d) |-> d[i][2] ]

HasKey(d, k) == \E i \in 1..Len(d) : d[i][1] = k

IndexOfKey(d, k) == CHOOSE i \in 1..Len(d) : d[i][1] = k

Get(d, k) == d[IndexOfKey(d, k)][2]

\* dict.get(k, default)
GetOr(d, k, default) == IF HasKey(d, k) THEN Get(d, k) ELSE default

\* d[k] = v : an existing key keeps its place, a new key goes last
Put(d, k, v) ==
    IF HasKey(d, k)
    THEN [ i \in 1..Len(d) |-> IF d[i][1] = k THEN <<k, v>> ELSE d[i] ]
    ELSE Append(d, <<k, v>>)

\* d.pop(k)
Pop(d, k) == SelectSeq(d, LAMBDA e : e[1] # k)

UniqueKeys(d) == \A i, j \in 1..Len(d) : d[i][1] = d[j][1] => i = j

RECURSIVE SumSeq(_)
\* sum(list)
SumSeq(s) == IF s = <<>> THEN 0 ELSE Head(s) + SumSeq(Tail(s))

(***************************************************************************)
(* Text: str.lower, str.translate(punctuation), str.split, the stemmer.    *)
(***************************************************************************)
Uppers == <<"A","B","C","D","E","F","G","H","I","J","K","L","M",
            "N","O","P","Q","R","S","T","U","V","W","X","Y","Z">>

Lowers == <<"a","b","c","d","e","f","g","h","i","j","k","l","m",
            "n","o","p","q","r","s","t","u","v","w","x","y","z">>

\* string.punctuation (all of it but the grave accent, which a TLA+ string
\* cannot hold)
Punctuation == {"!","\"","#","$","%","&","'","(",")","*","+",",","-",".","/",
                ":",";","<","=",">","?","@","[","\\","]","^","_","{","|",
                "}","~"}

Whitespace == {" "}

LowerChar(c) ==
    IF \E i \in 1..Len(Uppers) : Uppers[i] = c
    THEN Lowers[CHOOSE i \in 1..Len(Uppers) : Uppers[i] = c]
    ELSE c

\* word.lower()
lower(word) == [ i \in 1..Len(word) |-> LowerChar(word[i]) ]

\* word.translate(str.maketrans('', '', string.punctuation)): digits stay
translate(word) == SelectSeq(word, LAMBDA c : c \notin Punctuation)

\* str.split(): the maximal runs of non-whitespace, in order
split(text) ==
    LET n == Len(text)
        starts == { i \in 1..n :
                      /\ text[i] \notin Whitespace
                      /\ i = 1 \/ text[i - 1] \in Whitespace }
        EndOf(i) == CHOOSE j \in i..n :
                      /\ \A k \in i..j : text[k] \notin Whitespace
                      /\ j = n \/ text[j + 1] \in Whitespace
        StartNo(w) == CHOOSE i \in starts :
                        Cardinality({ t \in starts : t < i }) = w - 1
    IN  [ w \in 1..Cardinality(starts) |->
            SubSeq(text, StartNo(w), EndOf(StartNo(w))) ]

RECURSIVE JoinWords(_)
\* ' '.join(words)
JoinWords(ws) ==
    IF ws = <<>> THEN <<>>
    ELSE IF Len(ws) = 1 THEN ws[1]
    ELSE ws[1] \o <<" ">> \o JoinWords(Tail(ws))

\* The words of the model's vocabulary.
W_The      == <<"T","h","e">>
W_the      == <<"t","h","e">>
W_running  == <<"r","u","n","n","i","n","g">>
W_run      == <<"r","u","n">>
W_runners  == <<"r","u","n","n","e","r","s",",">>
W_runner   == <<"r","u","n","n","e","r">>
W_fastbang == <<"f","a","s","t","!">>
W_fast     == <<"f","a","s","t">>
W_flies    == <<"f","l","i","e","s">>
W_fli      == <<"f","l","i">>
W_punct    == <<"!","?">>
W_7up      == <<"7","u","p">>
W_empty    == <<>>

\* files/porter.py (PorterStemmer.stem) is not among the sources: the
\* stemmer is the specification's (S1, S2: running -> run, flies -> fli,
\* runners -> runner); every other word of the vocabulary is its own stem.
stem(word) ==
    CASE word = W_running -> W_run
      [] word = <<"r","u","n","n","e","r","s">> -> W_runner
      [] word = W_flies -> W_fli
      [] OTHER -> word

(***************************************************************************)
(* process_query (query_small_corpus.py) and process_docs                  *)
(* (index_small_corpus.py).                                                *)
(***************************************************************************)
RECURSIVE ProcessQueryWords(_, _, _)
ProcessQueryWords(stopwords_set, words, result) ==
    IF words = <<>> THEN result
    ELSE LET word == translate(lower(Head(words)))
         IN  IF word # <<>> /\ word \notin stopwords_set
             THEN ProcessQueryWords(stopwords_set, Tail(words),
                                    Append(result, stem(word)))
             ELSE ProcessQueryWords(stopwords_set, Tail(words), result)

\* the same loop starting at the second word (an off-by-one slip)
process_query_skipfirst(stopwords_list, q) ==
    LET words == split(q)
    IN  ProcessQueryWords(Range(stopwords_list),
                          IF words = <<>> THEN <<>> ELSE Tail(words), <<>>)

RECURSIVE StemFirstWords(_, _, _)
StemFirstWords(stopwords_set, words, result) ==
    IF words = <<>> THEN result
    ELSE LET word == stem(translate(lower(Head(words))))
         IN  IF word # <<>> /\ word \notin stopwords_set
             THEN StemFirstWords(stopwords_set, Tail(words),
                                 Append(result, word))
             ELSE StemFirstWords(stopwords_set, Tail(words), result)

\* the stopword test applied to the stem instead of the word
process_query_stemfirst(stopwords_list, q) ==
    StemFirstWords(Range(stopwords_list), split(q), <<>>)

process_query(stopwords_list, q) ==
    ProcessQueryWords(Range(stopwords_list), split(q), <<>>)

RECURSIVE ProcessDocWords(_, _, _, _)
\* the inner loop of process_docs; returns <<processed_words, cache>>
ProcessDocWords(stopwords_set, words, processed_words, cache) ==
    IF words = <<>> THEN <<processed_words, cache>>
    ELSE LET word == translate(lower(Head(words)))
         IN  IF word # <<>> /\ word \notin stopwords_set
             THEN LET cache2 == IF HasKey(cache, word) THEN cache
                                ELSE Put(cache, word, stem(word))
                  IN  ProcessDocWords(stopwords_set, Tail(words),
                                      Append(processed_words, Get(cache2, word)),
                                      cache2)
             ELSE ProcessDocWords(stopwords_set, Tail(words),
                                  processed_words, cache)

RECURSIVE ProcessDocsFrom(_, _, _, _, _)
ProcessDocsFrom(stopwords_set, docs, i, result, cache) ==
    IF i > Len(docs) THEN result
    ELSE LET r == ProcessDocWords(stopwords_set, docs[i][2], <<>>, cache)
         IN  ProcessDocsFrom(stopwords_set, docs, i + 1,
                             Put(result, docs[i][1], r[1]), r[2])

process_docs(docs, stopwords_list) ==
    ProcessDocsFrom(Range(stopwords_list), docs, 1, <<>>, <<>>)

(***************************************************************************)
(* The query engine (query_small_corpus.py).                               *)
(***************************************************************************)
MaxRank == 15        \* format_output stops after this many records

\* a sort by falling value in which items of equal value stand by rising
\* key
SortedByValueThenKey(items) ==
    LET n == Len(items)
        place == [ k \in 1..n |->
                     1 + Cardinality(
                             { j \in 1..n :
                                 \/ items[j][2] > items[k][2]
                                 \/ items[j][2] = items[k][2]
                                        /\ items[j][1] < items[k][1] }) ]
    IN  [ p \in 1..n |-> items[CHOOSE k \in 1..n : place[k] = p] ]

\* sorted(d.items(), key=lambda x: x[1], reverse=True), and
\* Counter.most_common(), which is the same call.  The sort is stable: an
\* item stands behind the items of greater value and behind the items of
\* equal value that came before it.
SortedByValueDesc(items) ==
    LET n == Len(items)
        place == [ k \in 1..n |->
                     1 + Cardinality(
                             { j \in 1..n :
                                 \/ items[j][2] > items[k][2]
                                 \/ items[j][2] = items[k][2] /\ j < k }) ]
    IN  [ p \in 1..n |-> items[CHOOSE k \in 1..n : place[k] = p] ]

\* Counter.update(mapping): counts are added to the keys already there, new
\* keys go last in the order of the mapping
CounterUpdate(result, posting) ==
    [ i \in 1..Len(result) |->
        <<result[i][1], GetOr(posting, result[i][1], 0) + result[i][2]>> ]
    \o SelectSeq(posting, LAMBDA e : ~HasKey(result, e[1]))

RECURSIVE Accumulate(_, _, _, _)
\* the loop of find_relevant_documents
Accumulate(index, processed, i, result) ==
    IF i > Len(processed) THEN result
    ELSE IF HasKey(index, processed[i])
         THEN Accumulate(index, processed, i + 1,
                         CounterUpdate(result, Get(index, processed[i])))
         ELSE Accumulate(index, processed, i + 1, result)

RECURSIVE Dedup(_)
Dedup(s) ==
    IF s = <<>> THEN <<>>
    ELSE LET r == Dedup(SelectSeq(Tail(s), LAMBDA x : x # Head(s)))
         IN  <<Head(s)>> \o r

\* every query term counted once (for word in set(processed_query))
find_relevant_documents_once(index, processed) ==
    [ index |-> index,
      sorted_result |->
          SortedByValueDesc(Accumulate(index, Dedup(processed), 1, <<>>)) ]

\* the accumulator is the first posting list found instead of a new Counter,
\* so the updates are written into the index
find_relevant_documents_aliased(index, processed) ==
    LET known == SelectSeq(processed, LAMBDA t : HasKey(index, t))
    IN  IF known = <<>>
        THEN [ index |-> index, sorted_result |-> <<>> ]
        ELSE LET acc == Accumulate(index, Tail(known), 1,
                                   Get(index, Head(known)))
             IN  [ index |-> Put(index, Head(known), acc),
                   sorted_result |-> SortedByValueDesc(acc) ]

\* the posting lists of every term of the index accumulated, whatever the
\* query
find_relevant_documents_any(index, processed) ==
    [ index |-> index,
      sorted_result |->
          SortedByValueDesc(Accumulate(index, KeyList(index), 1, <<>>)) ]

\* find_relevant_documents: what it returns, and the index argument as the
\* call leaves it (the accumulator is a Counter of its own; the posting
\* lists are only read)
find_relevant_documents(index, processed) ==
    [ index |-> index,
      sorted_result |->
          SortedByValueDesc(Accumulate(index, processed, 1, <<>>)) ]

\* the loop of format_output, one record per line of the result string:
\* rank_count starts at 1, goes up by one per record, and the loop is left
\* once it is above MaxRank
FormatRecords(current_query_number, docs, m, last_rank) ==
    [ rank_count \in 1..(IF Len(docs) < last_rank THEN Len(docs) ELSE last_rank) |->
        IF m = "automatic"
        THEN <<current_query_number, docs[rank_count][1], rank_count,
               docs[rank_count][2]>>
        ELSE <<rank_count, docs[rank_count][1], docs[rank_count][2]>> ]

\* the loop left one record early (>= instead of >)
format_output_short(current_query_number, docs, m) ==
    IF m \in {"automatic", "interactive"}
    THEN FormatRecords(current_query_number, docs, m, MaxRank - 1)
    ELSE <<>>

format_output(current_query_number, docs, m) ==
    IF m \in {"automatic", "interactive"}
    THEN FormatRecords(current_query_number, docs, m, MaxRank)
    ELSE <<>>

(***************************************************************************)
(* The indexer (index_small_corpus.py).                                    *)
(***************************************************************************)
K1 == 1              \* k: float = 1.0
BNum == 3            \* b: float = 0.75, as BNum / BDen
BDen == 4

RECURSIVE TermFreqFrom(_, _, _)
\* the counting loop over the terms of one document
TermFreqFrom(terms, i, term_freq) ==
    IF i > Len(terms) THEN term_freq
    ELSE TermFreqFrom(terms, i + 1,
                      Put(term_freq, terms[i], GetOr(term_freq, terms[i], 0) + 1))

\* the length of the document and the average length exchanged:
\* (freq * (k + 1)) / (freq + k * ((1 - b) + b * avg_doclen / doclen))
Bm25Freq_inverted(freq, doclen, total, n) ==
    (Scale * freq * (K1 + 1) * BDen * n * doclen)
    \div (freq * BDen * n * doclen
          + K1 * ((BDen - BNum) * n * doclen + BNum * total))

\* (freq * (k + 1)) / (freq + k * ((1 - b) + b * doclen / avg_doclen)) with
\* avg_doclen = total / n, both sides of the fraction times BDen * total
Bm25Freq(freq, doclen, total, n) ==
    (Scale * freq * (K1 + 1) * BDen * total)
    \div (freq * BDen * total + K1 * ((BDen - BNum) * total + BNum * doclen * n))

RECURSIVE AddDocumentTerms(_, _, _, _, _, _)
\* for term, bm25_freq in bm25_scores.items(): the entry of the document is
\* added to the term's posting list, or the posting list is begun; the
\* length of the document is the sum of its term counts
AddDocumentTerms(inverted, document_id, term_freq, i, total, n) ==
    IF i > Len(term_freq) THEN inverted
    ELSE LET term == term_freq[i][1]
             bm25_freq == Bm25Freq(term_freq[i][2],
                                   SumSeq(Values(term_freq)), total, n)
         IN  AddDocumentTerms(
                 IF HasKey(inverted, term)
                 THEN Put(inverted, term,
                          Put(Get(inverted, term), document_id, bm25_freq))
                 ELSE Put(inverted, term, << <<document_id, bm25_freq>> >>),
                 document_id, term_freq, i + 1, total, n)

RECURSIVE OverwriteDocumentTerms(_, _, _, _, _, _)
OverwriteDocumentTerms(inverted, document_id, term_freq, i, total, n) ==
    IF i > Len(term_freq) THEN inverted
    ELSE OverwriteDocumentTerms(
             Put(inverted, term_freq[i][1],
                 << <<document_id,
                      Bm25Freq(term_freq[i][2], SumSeq(Values(term_freq)),
                               total, n)>> >>),
             document_id, term_freq, i + 1, total, n)

RECURSIVE InvertFrom(_, _, _, _)
InvertFrom(processed_documents, i, inverted, overwrite) ==
    IF i > Len(processed_documents) THEN inverted
    ELSE LET total == SumSeq([ j \in 1..Len(processed_documents) |->
                                  Len(processed_documents[j][2]) ])
             term_freq == TermFreqFrom(processed_documents[i][2], 1, <<>>)
         IN  InvertFrom(processed_documents, i + 1,
                 IF overwrite
                 THEN OverwriteDocumentTerms(inverted, processed_documents[i][1],
                          term_freq, 1, total, Len(processed_documents))
                 ELSE AddDocumentTerms(inverted, processed_documents[i][1],
                          term_freq, 1, total, Len(processed_documents)),
                 overwrite)

\* every posting list begun anew by each document (the "if term in
\* inverted_index" branch lost)
build_inverted_document_index_overwrite(processed_documents) ==
    IF Len(processed_documents) = 0
    THEN [ raised |-> "ZeroDivisionError", inverted_index |-> <<>> ]
    ELSE [ raised |-> "",
           inverted_index |-> InvertFrom(processed_documents, 1, <<>>, TRUE) ]

\* build_inverted_document_index: avg_doclen divides by the number of
\* documents before anything else is done
build_inverted_document_index(processed_documents) ==
    IF Len(processed_documents) = 0
    THEN [ raised |-> "ZeroDivisionError", inverted_index |-> <<>> ]
    ELSE [ raised |-> "",
           inverted_index |-> InvertFrom(processed_documents, 1, <<>>, FALSE) ]

RECURSIVE LnSeries(_, _, _, _)
\* sum over k of z^(2k+1) / (2k+1), z = num / den, power = Scale * z^(2k+1)
LnSeries(power, num, den, k) ==
    IF k >= LnTerms THEN 0
    ELSE (power \div (2 * k + 1))
         + LnSeries((power * num * num) \div (den * den), num, den, k + 1)

\* math.log(a / b) = 2 * artanh((a - b) / (a + b)), for a >= b > 0
LnFixed(a, b) == 2 * LnSeries((Scale * (a - b)) \div (a + b), a - b, a + b, 0)

\* the idf without the 1 under the logarithm:
\* math.log((total_docs - df + 0.5) / (df + 0.5))
IdfOf_plain(df, total_docs) == LnFixed(2 * total_docs - 2 * df + 1, 2 * df + 1)

\* math.log(1 + (total_docs - df + 0.5) / (df + 0.5)); the argument is
\* (2 * total_docs + 2) / (2 * df + 1)
IdfOf(df, total_docs) == LnFixed(2 * total_docs + 2, 2 * df + 1)

compute_idf(inverted, total_docs) ==
    [ i \in 1..Len(inverted) |->
        << inverted[i][1], IdfOf(Len(inverted[i][2]), total_docs) >> ]

\* weight_index[term][doc] = idf[term] * inverted_index[term][doc], then the
\* posting list sorted by weight, descending
build_bm25_weight_index(idf_of, inverted) ==
    [ i \in 1..Len(idf_of) |->
        LET term == idf_of[i][1]
            posting == Get(inverted, term)
        IN  << term,
               SortedByValueDesc(
                   [ j \in 1..Len(posting) |->
                       << posting[j][1],
                          (idf_of[i][2] * posting[j][2]) \div Scale >> ]) >> ]

(***************************************************************************)
(* The index file: json.dump writes each float by repr, json.load reads it *)
(* back with float(); keys are the strings they were.                      *)
(***************************************************************************)
DigitChars == <<"0","1","2","3","4","5","6","7","8","9">>

RECURSIVE DigitsOf(_)
DigitsOf(v) ==
    IF v < 10 THEN <<DigitChars[v + 1]>>
    ELSE Append(DigitsOf(v \div 10), DigitChars[(v % 10) + 1])

DigitValue(c) == (CHOOSE i \in 1..10 : DigitChars[i] = c) - 1

RECURSIVE NumberOf(_)
NumberOf(ds) ==
    IF ds = <<>> THEN 0
    ELSE 10 * NumberOf(SubSeq(ds, 1, Len(ds) - 1)) + DigitValue(ds[Len(ds)])

\* float.__repr__: the shortest text that reads back as the same float
ReprFloat(v) == DigitsOf(v)

\* float(text)
ParseFloat(ds) == NumberOf(ds)

\* the weights written with two decimals less than they have
json_dump_rounded(index) ==
    [ i \in 1..Len(index) |->
        << index[i][1],
           [ j \in 1..Len(index[i][2]) |->
               << index[i][2][j][1],
                  ReprFloat((index[i][2][j][2] \div 100) * 100) >> ] >> ]

\* json.dump(weights_index, file, indent=4): the members of the object, and
\* of each posting object, in the dicts' order
json_dump(index) ==
    [ i \in 1..Len(index) |->
        << index[i][1],
           [ j \in 1..Len(index[i][2]) |->
               << index[i][2][j][1], ReprFloat(index[i][2][j][2]) >> ] >> ]

RECURSIVE LoadMembers(_, _, _)
\* a JSON object read into a dict, member by member
LoadMembers(members, i, d) ==
    IF i > Len(members) THEN d
    ELSE LoadMembers(members, i + 1,
                     Put(d, members[i][1], ParseFloat(members[i][2])))

RECURSIVE LoadTerms(_, _, _)
LoadTerms(text, i, d) ==
    IF i > Len(text) THEN d
    ELSE LoadTerms(text, i + 1,
                   Put(d, text[i][1], LoadMembers(text[i][2], 1, <<>>)))

\* json.load(file)
json_load(text) == LoadTerms(text, 1, <<>>)

(***************************************************************************)
(* The evaluator (evaluate_large_corpus.py; evaluate_small_corpus.py has   *)
(* the same loader).  A metric value is the fraction <<num, den>>.         *)
(***************************************************************************)
\* current_query_id = '': the value that equals no query id
NoQuery == -1

Frac(num, den) == <<num, den>>

FracAdd(x, y) == <<x[1] * y[2] + y[1] * x[2], x[2] * y[2]>>

\* x / n
FracDiv(x, n) == <<x[1], x[2] * n>>

FracEq(x, y) == x[1] * y[2] = y[1] * x[2]

\* the loader without its last step: a judgment of grade 0 stays in the map
LoadQrelsLine_keep(judgments, current, line) ==
    LET query_id == line[1]
        opened == IF query_id # current
                  THEN Put(judgments, query_id, <<>>)
                  ELSE judgments
    IN  Put(opened, query_id, Put(Get(opened, query_id), line[3], line[4]))

\* one line of qrels.txt, <<query_id, iteration, doc_id, relevance>>, taken
\* into the map: the body of the loader's loop
LoadQrelsLine(judgments, current, line) ==
    LET query_id == line[1]
        doc_id == line[3]
        relevance == line[4]
        opened == IF query_id # current
                  THEN Put(judgments, query_id, <<>>)
                  ELSE judgments
        stored == Put(opened, query_id,
                      Put(Get(opened, query_id), doc_id, relevance))
    IN  IF relevance = 0
        THEN Put(stored, query_id, Pop(Get(stored, query_id), doc_id))
        ELSE stored

RECURSIVE BprefSum(_, _, _, _, _)
\* for r_doc in relevant_docs: score_sum += count_B / N if N > 0 else 0
BprefSum(retrieved, relevant_list, non_relevant_docs, i, below) ==
    IF i > Len(relevant_list) THEN Frac(0, 1)
    ELSE LET r_doc == relevant_list[i]
             count_B ==
                 Cardinality({ n_doc \in non_relevant_docs :
                     IF below
                     THEN GetOr(retrieved, n_doc, 0) < GetOr(retrieved, r_doc, 0)
                     ELSE GetOr(retrieved, n_doc, 0) > GetOr(retrieved, r_doc, 0) })
             N == Cardinality(non_relevant_docs)
         IN  FracAdd(IF N > 0 THEN Frac(count_B, N) ELSE Frac(0, 1),
                     BprefSum(retrieved, relevant_list, non_relevant_docs,
                              i + 1, below))

RECURSIVE BprefFrom(_, _, _, _, _, _)
\* the loop over the queries of rel; returns the average
BprefFrom(ret, rel, i, total_bpref_score, num_queries, below) ==
    IF i > Len(rel)
    THEN IF num_queries > 0 THEN FracDiv(total_bpref_score, num_queries)
         ELSE Frac(0, 1)
    ELSE LET query_id == rel[i][1]
             judged == rel[i][2]
             relevant_list ==
                 KeyList(SelectSeq(judged, LAMBDA e : e[2] > 0))
             non_relevant_docs ==
                 Keys(SelectSeq(judged, LAMBDA e : e[2] <= 0))
         IN  IF relevant_list = <<>>
             THEN BprefFrom(ret, rel, i + 1, total_bpref_score, num_queries,
                            below)
             ELSE BprefFrom(ret, rel, i + 1,
                      FracAdd(total_bpref_score,
                              FracDiv(BprefSum(Get(ret, query_id), relevant_list,
                                               non_relevant_docs, 1, below),
                                      Len(relevant_list))),
                      num_queries + 1, below)

\* the judged-non-relevant documents with a higher score counted
bpref_above(ret, rel) == BprefFrom(ret, rel, 1, Frac(0, 1), 0, FALSE)

\* bpref: for each relevant document the judged-non-relevant documents whose
\* score in ret (0 when not retrieved) is below than its own are counted
bpref(ret, rel) == BprefFrom(ret, rel, 1, Frac(0, 1), 0, TRUE)

(***************************************************************************)
(* The other metric functions (evaluate_small_corpus.py and                *)
(* evaluate_large_corpus.py, the same text in both).  A call gives         *)
(* [raised, value]: raised is "" and value the returned number, or raised  *)
(* names the exception that ended the call.  The returned numbers are      *)
(* fractions <<numerator, denominator>>.                                   *)
(***************************************************************************)
Returned(v) == [ raised |-> "", value |-> v ]

Raised(e) == [ raised |-> e, value |-> <<>> ]

\* int(relevant_docs[doc]): the grades of a qrels file are whole numbers,
\* read by float(), and int() of a whole float is that number
ToInt(grade) == grade

RECURSIVE FracSum(_)
FracSum(s) == IF s = <<>> THEN Frac(0, 1) ELSE FracAdd(Head(s), FracSum(Tail(s)))

\* a / b of two whole numbers
Quotient(a, b) == IF b = 0 THEN Raised("ZeroDivisionError") ELSE Returned(Frac(a, b))

\* x / n of a fraction and a whole number
QuotientOf(x, n) == IF n = 0 THEN Raised("ZeroDivisionError") ELSE Returned(FracDiv(x, n))

\* a loop over the queries of ret that adds up one number per query and
\* returns total / len(ret): the first query whose body raises ends the call
AverageOverQueries(per_query) ==
    LET bad == { i \in 1..Len(per_query) : per_query[i].raised # "" }
    IN  IF bad # {}
        THEN Raised(per_query[CHOOSE i \in bad : \A j \in bad : i <= j].raised)
        ELSE QuotientOf(FracSum([ i \in 1..Len(per_query) |-> per_query[i].value ]),
                        Len(per_query))

\* sum(1 for doc in retrieved_docs
\*     if doc in relevant_docs and int(relevant_docs[doc]) > 0)
RelevantRetrieved(retrieved_docs, relevant_docs) ==
    Cardinality({ j \in 1..Len(retrieved_docs) :
                    /\ HasKey(relevant_docs, retrieved_docs[j][1])
                    /\ ToInt(Get(relevant_docs, retrieved_docs[j][1])) > 0 })

precision(ret, rel) ==
    AverageOverQueries(
        [ i \in 1..Len(ret) |->
            IF ~HasKey(rel, ret[i][1]) THEN Raised("KeyError")
            ELSE Quotient(RelevantRetrieved(ret[i][2], Get(rel, ret[i][1])),
                          Len(ret[i][2])) ])

\* recall with the queries that have no relevant document left out of
\* the sum
recall_excluding(ret, rel) ==
    AverageOverQueries(
        [ i \in 1..Len(ret) |->
            IF ~HasKey(rel, ret[i][1]) THEN Raised("KeyError")
            ELSE LET relevant_docs == Get(rel, ret[i][1])
                     total_relevant ==
                         Cardinality({ j \in 1..Len(relevant_docs) :
                                         ToInt(relevant_docs[j][2]) > 0 })
                 IN  IF total_relevant = 0 THEN Returned(Frac(0, 1))
                     ELSE Quotient(RelevantRetrieved(ret[i][2], relevant_docs),
                                   total_relevant) ])

recall(ret, rel) ==
    AverageOverQueries(
        [ i \in 1..Len(ret) |->
            IF ~HasKey(rel, ret[i][1]) THEN Raised("KeyError")
            ELSE LET relevant_docs == Get(rel, ret[i][1])
                     total_relevant ==
                         Cardinality({ j \in 1..Len(relevant_docs) :
                                         ToInt(relevant_docs[j][2]) > 0 })
                 IN  Quotient(RelevantRetrieved(ret[i][2], relevant_docs),
                              total_relevant) ])

\* list(d.keys())[:k]
FirstKeys(d, k) == SubSeq(KeyList(d), 1, IF Len(d) < k THEN Len(d) ELSE k)

r_precision(ret, rel) ==
    AverageOverQueries(
        [ i \in 1..Len(ret) |->
            IF ~HasKey(rel, ret[i][1]) THEN Raised("KeyError")
            ELSE LET judged == Get(rel, ret[i][1])
                     r == Len(judged)
                     top == FirstKeys(ret[i][2], r)
                     relevant_in_top_r ==
                         Cardinality({ j \in 1..Len(top) :
                                         /\ HasKey(judged, top[j])
                                         /\ ToInt(Get(judged, top[j])) > 0 })
                 IN  Quotient(relevant_in_top_r, r) ])

\* rel[query_id] is looked up once per document of the top k
precision_at_k(ret, rel, k) ==
    AverageOverQueries(
        [ i \in 1..Len(ret) |->
            LET top == FirstKeys(ret[i][2], k)
            IN  IF top # <<>> /\ ~HasKey(rel, ret[i][1]) THEN Raised("KeyError")
                ELSE LET relevant_in_top_k ==
                             Cardinality({ j \in 1..Len(top) :
                                 HasKey(Get(rel, ret[i][1]), top[j]) })
                     IN  Quotient(relevant_in_top_k, k) ])

\* map += relevant_documents_count / i at every position i of ret[query_id]
\* whose document is in rel[query_id]
AveragePrecisionSum(retrieved, judged) ==
    LET hits == { i \in 1..Len(retrieved) : HasKey(judged, retrieved[i][1]) }
        upto(i) == Cardinality({ j \in hits : j <= i })
    IN  FracSum([ i \in 1..Len(retrieved) |->
                    IF i \in hits THEN Frac(upto(i), i) ELSE Frac(0, 1) ])

mean_average_precision(ret, rel) ==
    AverageOverQueries(
        [ i \in 1..Len(ret) |->
            IF ~HasKey(rel, ret[i][1]) THEN Raised("KeyError")
            ELSE LET judged == Get(rel, ret[i][1])
                 IN  QuotientOf(AveragePrecisionSum(ret[i][2], judged),
                                Len(judged)) ])

\* math.log2(x) as a float: ln x / ln 2
Log2Fixed(x) == (LnFixed(x, 1) * Scale) \div LnFixed(2, 1)

\* the weight of the relevance at a rank: r[0] is taken as it is, the
\* relevance at rank >= 2 is divided by math.log2(rank + 1)
GainAt(relevance, rank) ==
    IF rank = 1 THEN relevance * Scale
    ELSE (relevance * Scale * Scale) \div Log2Fixed(rank + 1)

\* dcg_at_k, a float
dcg_at_k(r, k) ==
    LET cut == SubSeq(r, 1, IF Len(r) < k THEN Len(r) ELSE k)
    IN  IF cut = <<>> THEN 0
        ELSE SumSeq([ rank \in 1..Len(cut) |-> GainAt(cut[rank], rank) ])

\* the body of the loop of ndcg_at_k, a float; resort is FALSE where the
\* retrieved documents are taken in the order of the results map
NdcgOfQuery(query_id, score_dict, rel, k, resort) ==
    LET retrieved_docs == IF resort THEN SortedByValueDesc(score_dict)
                          ELSE score_dict
        judged == GetOr(rel, query_id, <<>>)
        actual_relevances ==
            [ i \in 1..Len(retrieved_docs) |->
                GetOr(judged, retrieved_docs[i][1], 0) ]
        dcg == dcg_at_k(actual_relevances, k)
        ideal_relevances == Values(SortedByValueDesc(judged))
        idcg == dcg_at_k(ideal_relevances, k)
    IN  IF idcg = 0 THEN 0 ELSE (dcg * Scale) \div idcg

\* the retrieved documents taken in the order of the results file
ndcg_at_k_unsorted(ret, rel, k) ==
    IF ret = <<>> THEN Returned(Frac(0, 1))
    ELSE Returned(Frac(SumSeq([ i \in 1..Len(ret) |->
                                  NdcgOfQuery(ret[i][1], ret[i][2], rel, k, FALSE) ]),
                       Len(ret) * Scale))

\* ndcg_at_k: sum(ndcg_scores.values()) / len(ndcg_scores), 0 for no query
ndcg_at_k(ret, rel, k) ==
    IF ret = <<>> THEN Returned(Frac(0, 1))
    ELSE Returned(Frac(SumSeq([ i \in 1..Len(ret) |->
                                  NdcgOfQuery(ret[i][1], ret[i][2], rel, k, TRUE) ]),
                       Len(ret) * Scale))

\* bpref looks up ret[query_id] once per judged-non-relevant document of a
\* query of rel that has a relevant document
BprefMissing(ret, rel) ==
    { i \in 1..Len(rel) :
        /\ \E j \in 1..Len(rel[i][2]) : rel[i][2][j][2] > 0
        /\ \E j \in 1..Len(rel[i][2]) : rel[i][2][j][2] <= 0
        /\ ~HasKey(ret, rel[i][1]) }

\* the call of bpref with its exception; the queries of rel that bpref
\* never looks up in ret stand in ret with no document
bpref_call(ret, rel) ==
    IF BprefMissing(ret, rel) # {} THEN Raised("KeyError")
    ELSE Returned(bpref(ret \o [ i \in 1..Len(SelectSeq(rel, LAMBDA e : ~HasKey(ret, e[1]))) |->
                                   << SelectSeq(rel, LAMBDA e : ~HasKey(ret, e[1]))[i][1], <<>> >> ],
                        rel))

(***************************************************************************)
(* Values of the variables a specification does not use.                   *)
(***************************************************************************)
NormIdle ==
    /\ stopwords = <<>> /\ raw_words = <<>> /\ query = <<>>
    /\ processed_docs = <<>> /\ processed_query = <<>> /\ renormalized = <<>>

IndexIdle ==
    /\ documents = <<>> /\ inverted_index = <<>> /\ idf = <<>>
    /\ weights_index = <<>> /\ index_file = <<>>

QueryIdle ==
    /\ built_index = <<>> /\ loaded_index = <<>> /\ relevant_documents = <<>>
    /\ memory_documents = <<>> /\ output = <<>> /\ mode = ""

EvalIdle ==
    /\ qrels_lines = <<>> /\ consumed = <<>> /\ current_query_id = NoQuery
    /\ relevance_judgments = <<>> /\ queries_result = <<>> /\ metric = <<>>
    /\ cutoff = 0

(***************************************************************************)
(* SpecNorm: the normalizer on one text.  The indexer reads the text as a  *)
(* document (twice, under two names, so that the second reading finds      *)
(* every stem in the cache), the query program reads it as a query, and    *)
(* the query program's output is joined by blanks and read again.          *)
(***************************************************************************)
RawWords == {W_The, W_running, W_run, W_fastbang, W_punct, W_7up, W_empty}

StopLists == { <<>>, <<W_the>>, <<W_run>>, <<W_the, W_run>> }

SeqsUpTo(S, n) == UNION { [1..k -> S] : k \in 0..n }

InitNorm ==
    /\ pc = "start"
    /\ stopwords \in StopLists
    /\ raw_words \in SeqsUpTo(RawWords, MaxWords)
    /\ query = JoinWords(raw_words)
    /\ processed_docs = <<>> /\ processed_query = <<>> /\ renormalized = <<>>
    /\ error = ""
    /\ IndexIdle /\ QueryIdle /\ EvalIdle

\* index_small_corpus.py __main__: documents[document] = content.split();
\* documents = process_docs(documents, stopwords)
ProcessDocs ==
    /\ pc = "start"
    /\ processed_docs' = process_docs(<< <<1, split(query)>>,
                                         <<2, split(query)>> >>, stopwords)
    /\ pc' = "docs_done"
    /\ UNCHANGED <<stopwords, raw_words, query, processed_query, renormalized,
                   error, indexVars, queryVars, evalVars>>

\* query_small_corpus.py __main__: processed_query = process_query(stopwords, query)
ProcessQuery ==
    /\ pc = "docs_done"
    /\ processed_query' = process_query(stopwords, query)
    /\ pc' = "query_done"
    /\ UNCHANGED <<stopwords, raw_words, query, processed_docs, renormalized,
                   error, indexVars, queryVars, evalVars>>

\* process_query on the whitespace-joined output of process_query
Renormalize ==
    /\ pc = "query_done"
    /\ renormalized' = process_query(stopwords, JoinWords(processed_query))
    /\ pc' = "renorm_done"
    /\ UNCHANGED <<stopwords, raw_words, query, processed_docs, processed_query,
                   error, indexVars, queryVars, evalVars>>

NextNorm == ProcessDocs \/ ProcessQuery \/ Renormalize

SpecNorm == InitNorm /\ [][NextNorm]_vars

----------------------------------------------------------------------------
(***************************************************************************)
(* Claims about the normalizer.                                            *)
(***************************************************************************)
Digits == {"0","1","2","3","4","5","6","7","8","9"}

\* the positions of the input whose lowercased, punctuation-stripped form
\* is non-empty and no stopword
KeptPositions ==
    { i \in 1..Len(raw_words) :
        /\ translate(lower(raw_words[i])) # <<>>
        /\ translate(lower(raw_words[i])) \notin Range(stopwords) }

RankOf(i) == Cardinality({ k \in KeptPositions : k <= i })

\* out holds exactly one stem per kept position, in input order, digits kept
EmitsKeptStems(out) ==
    /\ Len(out) = Cardinality(KeptPositions)
    /\ \A i \in KeptPositions :
         /\ out[RankOf(i)] = stem(translate(lower(raw_words[i])))
         /\ \A c \in Range(raw_words[i]) \cap Digits : c \in Range(out[RankOf(i)])

C7_IdempotentAsStated ==
    pc = "renorm_done" => renormalized = processed_query

\* C7 amended: normalizing the whitespace-joined output gives the same
\* sequence again whenever every emitted stem is non-empty, is no stopword
\* and is its own stem.
C7_IdempotentOnStableStems ==
    (/\ pc = "renorm_done"
     /\ \A i \in 1..Len(processed_query) :
          /\ processed_query[i] # <<>>
          /\ processed_query[i] \notin Range(stopwords)
          /\ stem(processed_query[i]) = processed_query[i])
    => renormalized = processed_query

\* a text with a dropped stopword, a stemmed word and punctuation, whose
\* stems are stable
C7_Witness ==
    /\ pc = "renorm_done"
    /\ raw_words = <<W_The, W_running, W_fastbang>>
    /\ stopwords = <<W_the>>
    /\ processed_query = <<W_run, W_fast>>
    /\ renormalized = <<W_run, W_fast>>

----------------------------------------------------------------------------
(***************************************************************************)
(* SpecQuery: the query program on a loaded index file.  The index files   *)
(* are those the indexer writes for a corpus of NumDocs documents named    *)
(* 1..NumDocs: each term's posting list is non-empty and in descending     *)
(* order of weight.  The term "run" is in the first Count documents of the *)
(* corpus, the term "fast" in Count documents taken in steps of three, the *)
(* weights fall with the position (by one per position, by one per four    *)
(* positions) or are all equal.  An index file may lack either term.       *)
(***************************************************************************)
Counts == {1, 3, MaxRank, NumDocs}

PostingOf(count, start, step, grain) ==
    [ i \in 1..count |->
        << ((start + (i - 1) * step) % NumDocs) + 1,
           1 + ((count - i) \div grain) >> ]

RunPostings ==
    { PostingOf(c, 0, 1, g) : c \in Counts, g \in {1, NumDocs} }

FastPostings ==
    { PostingOf(c, 5, 3, g) : c \in Counts, g \in {4, NumDocs} }

IndexFiles ==
    { <<>> }
    \cup { << <<W_run, p>> >> : p \in RunPostings }
    \cup { << <<W_fast, p>> >> : p \in FastPostings }
    \cup { << <<W_run, p>>, <<W_fast, r>> >> :
             p \in RunPostings, r \in FastPostings }

QueryWords == {W_running, W_fastbang}

QueryIds == {2}

InitQuery ==
    /\ pc = "loaded"
    /\ mode \in {"automatic", "interactive"}
    /\ stopwords = <<W_the>>
    /\ built_index \in IndexFiles
    /\ loaded_index = built_index
    /\ query = <<>> /\ processed_query = <<>> /\ relevant_documents = <<>>
    /\ output = <<>> /\ memory_documents = <<>>
    /\ raw_words = <<>> /\ processed_docs = <<>> /\ renormalized = <<>>
    /\ error = ""
    /\ IndexIdle /\ EvalIdle

\* the body of the loop over the lines of queries.txt (a file of two
\* lines); a line that holds a query id and no text cannot be unpacked into
\* query_id, query
AutomaticQuery ==
    /\ pc \in {"loaded", "answered"}
    /\ mode = "automatic"
    /\ \E query_id \in QueryIds, ws \in SeqsUpTo(QueryWords, MaxQueryWords) :
         LET q == JoinWords(ws)
             pq == process_query(stopwords, q)
             found == find_relevant_documents(built_index, pq)
         IN  IF split(q) = <<>>
             THEN /\ error' = "ValueError"
                  /\ pc' = "failed"
                  /\ UNCHANGED <<query, processed_query, built_index,
                                 relevant_documents, output>>
             ELSE /\ query' = q
                  /\ processed_query' = pq
                  /\ built_index' = found.index
                  /\ relevant_documents' = found.sorted_result
                  /\ output' = format_output(query_id, found.sorted_result,
                                             "automatic")
                  /\ pc' = IF pc = "loaded" THEN "answered" ELSE "answered_again"
                  /\ error' = error
    /\ UNCHANGED <<stopwords, raw_words, processed_docs, renormalized,
                   loaded_index, memory_documents, mode,
                   indexVars, evalVars>>

\* the body of the loop over the queries typed in (two of them)
InteractiveQuery ==
    /\ pc \in {"loaded", "answered"}
    /\ mode = "interactive"
    /\ \E ws \in SeqsUpTo(QueryWords, MaxQueryWords) :
         LET q == JoinWords(ws)
             pq == process_query(stopwords, q)
             found == find_relevant_documents(built_index, pq)
         IN  /\ query' = q
             /\ processed_query' = pq
             /\ built_index' = found.index
             /\ relevant_documents' = found.sorted_result
             /\ output' = format_output(1, found.sorted_result, "interactive")
    /\ pc' = IF pc = "loaded" THEN "answered" ELSE "answered_again"
    /\ UNCHANGED <<stopwords, raw_words, processed_docs, renormalized,
                   loaded_index, memory_documents, mode, error,
                   indexVars, evalVars>>

NextQuery == AutomaticQuery \/ InteractiveQuery

SpecQuery == InitQuery /\ [][NextQuery]_vars

----------------------------------------------------------------------------
(***************************************************************************)
(* Claims about the query engine.                                          *)
(***************************************************************************)
Answered == pc \in {"answered", "answered_again"}

\* the weight position i of the processed query gives to document d
Contribution(index, processed, i, d) ==
    IF HasKey(index, processed[i]) /\ HasKey(Get(index, processed[i]), d)
    THEN Get(Get(index, processed[i]), d)
    ELSE 0

ScoreOf(index, processed, d) ==
    SumSeq([ i \in 1..Len(processed) |-> Contribution(index, processed, i, d) ])

Matching(index, processed) ==
    { d \in 1..NumDocs :
        \E i \in 1..Len(processed) :
            /\ HasKey(index, processed[i])
            /\ HasKey(Get(index, processed[i]), d) }

\* C1: find_relevant_documents gives each document the sum, over every
\* position of the processed query whose term has the document in its
\* posting list, of the stored weight (a repeated term counts each time, an
\* unknown term counts nothing and raises nothing); a document is in the
\* result iff some query term has it; no known term, no result.
C1_ScoreIsSumOfWeights ==
    Answered =>
        /\ error = ""
        /\ UniqueKeys(relevant_documents)
        /\ Keys(relevant_documents) = Matching(loaded_index, processed_query)
        /\ \A d \in Keys(relevant_documents) :
             Get(relevant_documents, d) = ScoreOf(loaded_index, processed_query, d)
        /\ (\A i \in 1..Len(processed_query) :
               ~HasKey(loaded_index, processed_query[i]))
             => relevant_documents = <<>>

\* a repeated term, and a document scored twice
C1_Witness ==
    /\ Answered
    /\ processed_query = <<W_run, W_run>>
    /\ HasKey(loaded_index, W_run)
    /\ \E d \in Keys(relevant_documents) :
         Get(relevant_documents, d) = 2 * Get(Get(loaded_index, W_run), d)

RecordRank(r) == IF mode = "automatic" THEN r[3] ELSE r[1]
RecordDoc(r) == r[2]
RecordScore(r) == IF mode = "automatic" THEN r[4] ELSE r[3]

MinOf(a, b) == IF a < b THEN a ELSE b

\* C2: the records of a query number min(15, matching documents), carry the
\* ranks 1..n in order, have non-increasing scores, and are n highest-scoring
\* matching documents: no omitted matching document scores more than an
\* emitted one.
C2_TopRanked ==
    Answered =>
        LET matching == Matching(loaded_index, processed_query)
            n == MinOf(MaxRank, Cardinality(matching))
            emitted == { RecordDoc(output[i]) : i \in 1..Len(output) }
        IN  /\ Len(output) = n
            /\ \A i \in 1..Len(output) :
                 /\ RecordRank(output[i]) = i
                 /\ RecordDoc(output[i]) \in matching
                 /\ RecordScore(output[i]) =
                        ScoreOf(loaded_index, processed_query, RecordDoc(output[i]))
            /\ \A i, j \in 1..Len(output) :
                 i < j => /\ RecordScore(output[i]) >= RecordScore(output[j])
                          /\ RecordDoc(output[i]) # RecordDoc(output[j])
            /\ \A d \in matching \ emitted : \A i \in 1..Len(output) :
                 ScoreOf(loaded_index, processed_query, d) <= RecordScore(output[i])

\* more matching documents than records, in either mode, scores not all equal
C2_Witness ==
    /\ Answered
    /\ Cardinality(Matching(loaded_index, processed_query)) > MaxRank
    /\ Len(output) = MaxRank
    /\ RecordScore(output[1]) > RecordScore(output[MaxRank])

----------------------------------------------------------------------------
(***************************************************************************)
(* SpecIndex: the indexer on a corpus of processed documents named 1..n    *)
(* (n may be 0), the index file it writes, and the query program on that   *)
(* file.  Beside each answer of the query program stands the answer the    *)
(* same query gets on the indexer's in-memory index.                       *)
(***************************************************************************)
IndexTerms == {W_run, W_fast}

Corpora ==
    UNION { { [ i \in 1..n |-> <<i, terms[i]>> ] :
                terms \in [1..n -> SeqsUpTo(IndexTerms, MaxDocLen)] } :
            n \in 0..MaxDocs }

InitIndex ==
    /\ pc = "processed"
    /\ documents \in Corpora
    /\ inverted_index = <<>> /\ idf = <<>> /\ weights_index = <<>>
    /\ index_file = <<>>
    /\ stopwords = <<W_the>>
    /\ raw_words = <<>> /\ query = <<>> /\ processed_docs = <<>>
    /\ processed_query = <<>> /\ renormalized = <<>>
    /\ error = ""
    /\ QueryIdle /\ EvalIdle

\* inverted_indexes = build_inverted_document_index(documents)
BuildInvertedIndex ==
    /\ pc = "processed"
    /\ LET built == build_inverted_document_index(documents)
       IN  /\ inverted_index' = built.inverted_index
           /\ error' = built.raised
           /\ pc' = IF built.raised = "" THEN "inverted" ELSE "failed"
    /\ UNCHANGED <<documents, idf, weights_index, index_file,
                   normVars, queryVars, evalVars>>

\* idf = compute_idf(inverted_indexes, len(documents))
ComputeIdf ==
    /\ pc = "inverted"
    /\ idf' = compute_idf(inverted_index, Len(documents))
    /\ pc' = "idf"
    /\ UNCHANGED <<documents, inverted_index, weights_index, index_file,
                   error, normVars, queryVars, evalVars>>

\* weights_index = build_bm25_weight_index(idf, inverted_indexes)
BuildWeightIndex ==
    /\ pc = "idf"
    /\ weights_index' = build_bm25_weight_index(idf, inverted_index)
    /\ pc' = "weighted"
    /\ UNCHANGED <<documents, inverted_index, idf, index_file,
                   error, normVars, queryVars, evalVars>>

\* json.dump(weights_index, file, indent=4)
WriteIndex ==
    /\ pc = "weighted"
    /\ index_file' = json_dump(weights_index)
    /\ pc' = "written"
    /\ UNCHANGED <<documents, inverted_index, idf, weights_index,
                   error, normVars, queryVars, evalVars>>

\* query program: built_index = json.load(file)
LoadIndex ==
    /\ pc = "written"
    /\ built_index' = json_load(index_file)
    /\ loaded_index' = json_load(index_file)
    /\ mode' = "automatic"
    /\ pc' = "loaded"
    /\ UNCHANGED <<relevant_documents, memory_documents, output,
                   error, normVars, indexVars, evalVars>>

\* the line of a queries.txt of one line answered on the loaded index (and,
\* beside it, on the in-memory index)
QueryLoadedIndex ==
    /\ pc = "loaded"
    /\ \E query_id \in QueryIds, ws \in SeqsUpTo(QueryWords, MaxQueryWords) :
         LET q == JoinWords(ws)
             pq == process_query(stopwords, q)
             found == find_relevant_documents(built_index, pq)
         IN  IF split(q) = <<>>
             THEN /\ error' = "ValueError"
                  /\ pc' = "failed"
                  /\ UNCHANGED <<query, processed_query, built_index,
                                 relevant_documents, memory_documents, output>>
             ELSE /\ query' = q
                  /\ processed_query' = pq
                  /\ built_index' = found.index
                  /\ relevant_documents' = found.sorted_result
                  /\ memory_documents' =
                         find_relevant_documents(weights_index, pq).sorted_result
                  /\ output' = format_output(query_id, found.sorted_result,
                                             "automatic")
                  /\ pc' = "answered"
                  /\ error' = error
    /\ UNCHANGED <<stopwords, raw_words, processed_docs, renormalized,
                   loaded_index, mode, indexVars, evalVars>>

NextIndex ==
    \/ BuildInvertedIndex \/ ComputeIdf \/ BuildWeightIndex \/ WriteIndex
    \/ LoadIndex \/ QueryLoadedIndex

SpecIndex == InitIndex /\ [][NextIndex]_vars

----------------------------------------------------------------------------
(***************************************************************************)
(* Claims about the indexer and the index file.                            *)
(***************************************************************************)
IndexBuilt == pc \in {"weighted", "written", "loaded", "answered"}

\* C3: after the two build steps on a non-empty collection, document d is a
\* key of term t's posting list iff t occurs in d's terms; every term of
\* the index has a non-empty posting list; a posting list has at most one
\* entry per document.
C3_IndexComplete ==
    (IndexBuilt /\ Len(documents) > 0) =>
        /\ UniqueKeys(weights_index)
        /\ \A i \in 1..Len(weights_index) :
             /\ weights_index[i][2] # <<>>
             /\ UniqueKeys(weights_index[i][2])
             /\ Keys(weights_index[i][2]) \subseteq Keys(documents)
        /\ \A d \in Keys(documents) :
             \A t \in IndexTerms \cup Keys(weights_index) :
                 (HasKey(weights_index, t) /\ HasKey(Get(weights_index, t), d))
                 <=> t \in Range(Get(documents, d))

\* a term in both documents (twice in one), a term in one document only
C3_Witness ==
    /\ pc = "weighted"
    /\ documents = << <<1, <<W_run, W_run>>>>, <<2, <<W_fast, W_run>>>> >>
    /\ Keys(Get(weights_index, W_run)) = {1, 2}
    /\ Keys(Get(weights_index, W_fast)) = {2}

C8_EmptyCorpusNotFatal ==
    (Len(documents) = 0 /\ pc # "processed") =>
        /\ error = ""
        /\ pc # "failed"
        /\ weights_index = <<>>

----------------------------------------------------------------------------
(***************************************************************************)
(* SpecLoader: the evaluator's qrels loader, one line of the file at a     *)
(* time.  A line is <<query_id, iteration, doc_id, relevance>>.            *)
(***************************************************************************)
QrelsLines ==
    { <<q, 0, d, g>> : q \in {1, 2}, d \in {"A", "B"}, g \in {0, 1, 2} }

InitLoader ==
    /\ pc = "loading"
    /\ qrels_lines \in SeqsUpTo(QrelsLines, MaxQrelsLines)
    /\ consumed = <<>>
    /\ current_query_id = NoQuery
    /\ relevance_judgments = <<>>
    /\ queries_result = <<>>
    /\ metric = <<>>
    /\ cutoff = 0
    /\ error = ""
    /\ NormIdle /\ IndexIdle /\ QueryIdle

\* for line in file: ... (the qrels loop of __main__)
ReadQrelsLine ==
    /\ pc = "loading"
    /\ qrels_lines # <<>>
    /\ relevance_judgments' =
           LoadQrelsLine(relevance_judgments, current_query_id, Head(qrels_lines))
    /\ current_query_id' = Head(qrels_lines)[1]
    /\ consumed' = Append(consumed, Head(qrels_lines))
    /\ qrels_lines' = Tail(qrels_lines)
    /\ UNCHANGED <<pc, queries_result, metric, cutoff, error,
                   normVars, indexVars, queryVars>>

\* the end of the file
CloseQrels ==
    /\ pc = "loading"
    /\ qrels_lines = <<>>
    /\ pc' = "loaded"
    /\ UNCHANGED <<evalVars, error, normVars, indexVars, queryVars>>

NextLoader == ReadQrelsLine \/ CloseQrels

SpecLoader == InitLoader /\ [][NextLoader]_vars

\* no document is judged twice for one query
JudgedOnce ==
    \A i, j \in 1..Len(consumed) :
        (consumed[i][1] = consumed[j][1] /\ consumed[i][3] = consumed[j][3])
            => i = j

\* C10 as stated: whatever the order of the query ids in the file, the map
\* loaded for a query of the file holds exactly its documents judged with a
\* grade above 0, each with its grade.
C10_LoadedQrelsExact ==
    (pc = "loaded" /\ JudgedOnce) =>
        \A i \in 1..Len(consumed) :
            LET q == consumed[i][1]
            IN  /\ HasKey(relevance_judgments, q)
                /\ Keys(Get(relevance_judgments, q)) =
                       { consumed[j][3] : j \in { k \in 1..Len(consumed) :
                             consumed[k][1] = q /\ consumed[k][4] > 0 } }
                /\ \A j \in 1..Len(consumed) :
                       (consumed[j][1] = q /\ consumed[j][4] > 0)
                           => Get(Get(relevance_judgments, q), consumed[j][3])
                                  = consumed[j][4]

----------------------------------------------------------------------------
(***************************************************************************)
(* SpecMetrics: a metric function called on a results map and a qrels map. *)
(* Both hold one query; the documents are A, B, X, Y; a document is not    *)
(* judged (-1 below) or judged with grade 0 or 1; the retrieved documents  *)
(* are ranked, with scores that fall from rank to rank or every second     *)
(* rank.                                                                   *)
(***************************************************************************)
EvalDocs == {"A", "B", "X", "Y"}

Injective(s) == \A i, j \in 1..Len(s) : s[i] = s[j] => i = j

Rankings == { s \in SeqsUpTo(EvalDocs, MaxRetrieved) : Injective(s) }

ScoredRankings ==
    { [ i \in 1..Len(s) |-> <<s[i], 1 + ((Len(s) - i) \div grain)>> ] :
        s \in Rankings, grain \in {1, 2} }

JudgmentMaps ==
    { SelectSeq(<< <<"A", g[1]>>, <<"B", g[2]>>, <<"X", g[3]>>, <<"Y", g[4]>> >>,
                LAMBDA e : e[2] >= 0) :
        g \in [1..4 -> {-1, 0, 1}] }

InitMetrics ==
    /\ pc = "called"
    /\ queries_result \in { << <<1, r>> >> : r \in ScoredRankings }
    /\ relevance_judgments \in { << <<1, j>> >> : j \in JudgmentMaps }
    /\ metric = <<>>
    /\ cutoff = 0
    /\ qrels_lines = <<>> /\ consumed = <<>> /\ current_query_id = NoQuery
    /\ error = ""
    /\ NormIdle /\ IndexIdle /\ QueryIdle

\* bpref(queries_result, relevance_judgments)
Bpref ==
    /\ pc = "called"
    /\ metric' = bpref(queries_result, relevance_judgments)
    /\ pc' = "bpref"
    /\ UNCHANGED <<qrels_lines, consumed, current_query_id,
                   relevance_judgments, queries_result, cutoff, error,
                   normVars, indexVars, queryVars>>

NextMetrics == Bpref

SpecMetrics == InitMetrics /\ [][NextMetrics]_vars

Retrieved == Get(queries_result, 1)

Judged == Get(relevance_judgments, 1)

RelevantDocs == { d \in Keys(Judged) : Get(Judged, d) > 0 }

NonRelevantDocs == { d \in Keys(Judged) : Get(Judged, d) <= 0 }

PositionOf(d) == CHOOSE i \in 1..Len(Retrieved) : Retrieved[i][1] = d

\* the example of the specification: relevant A, B; judged non-relevant
\* X, Y; retrieved in the order X, A, Y, B
ExampleS6 ==
    /\ RelevantDocs = {"A", "B"}
    /\ NonRelevantDocs = {"X", "Y"}
    /\ Retrieved = << <<"X", 4>>, <<"A", 3>>, <<"Y", 2>>, <<"B", 1>> >>

\* C9 as stated: bpref is (1/R) times the sum, over the relevant documents
\* that were retrieved, of B_r / N_jn, B_r the number of judged-non-relevant
\* documents ranked above r; 0.75 on the example.
C9_BprefCountsAbove ==
    (pc = "bpref" /\ RelevantDocs # {}) =>
        LET above == { <<r, n>> \in (RelevantDocs \cap Keys(Retrieved))
                                    \X (NonRelevantDocs \cap Keys(Retrieved)) :
                          PositionOf(n) < PositionOf(r) }
        IN  /\ NonRelevantDocs # {} =>
                FracEq(metric, Frac(Cardinality(above),
                                    Cardinality(RelevantDocs)
                                    * Cardinality(NonRelevantDocs)))
            /\ NonRelevantDocs = {} => FracEq(metric, Frac(0, 1))
            /\ ExampleS6 => FracEq(metric, Frac(3, 4))

ScoreIn(d) == GetOr(Retrieved, d, 0)

\* C9 amended: bpref is (1/R) times the sum, over every relevant document r
\* (retrieved or not), of B_r / N_jn, B_r the number of judged-non-relevant
\* documents whose stored score is lower than r's, a document that was not
\* retrieved having score 0; 0 when N_jn = 0; 0.25 on the example.
C9_BprefCountsLowerScores ==
    (pc = "bpref" /\ RelevantDocs # {}) =>
        LET pairs == { <<r, n>> \in RelevantDocs \X NonRelevantDocs :
                          ScoreIn(n) < ScoreIn(r) }
        IN  /\ NonRelevantDocs # {} =>
                FracEq(metric, Frac(Cardinality(pairs),
                                    Cardinality(RelevantDocs)
                                    * Cardinality(NonRelevantDocs)))
            /\ NonRelevantDocs = {} => FracEq(metric, Frac(0, 1))
            /\ ExampleS6 => FracEq(metric, Frac(1, 4))

\* bpref has answered the example
C9_Witness ==
    /\ pc = "bpref"
    /\ ExampleS6
    /\ FracEq(metric, Frac(1, 4))

----------------------------------------------------------------------------
(***************************************************************************)
(* The calls of the metric functions, each taken alone on the maps at      *)
(* hand: the maps the evaluator has loaded (SpecEval) or the arguments of  *)
(* a call (SpecCalls).  pc names the function called; error is the         *)
(* exception that ended the call, if one did.                              *)
(***************************************************************************)
Cutoffs == {1, 2, MaxRank}

CallEnds(name, outcome, k) ==
    /\ pc \in {"loaded", "called"}
    /\ pc' = name
    /\ metric' = outcome.value
    /\ error' = outcome.raised
    /\ cutoff' = k
    /\ UNCHANGED <<qrels_lines, consumed, current_query_id,
                   relevance_judgments, queries_result,
                   normVars, indexVars, queryVars>>

CallPrecision ==
    CallEnds("precision", precision(queries_result, relevance_judgments), 0)

CallRecall ==
    CallEnds("recall", recall(queries_result, relevance_judgments), 0)

CallRPrecision ==
    CallEnds("r_precision", r_precision(queries_result, relevance_judgments), 0)

\* precision_at_k(queries_result, relevance_judgments, 15)
CallPrecisionAtK ==
    CallEnds("precision_at_k",
             precision_at_k(queries_result, relevance_judgments, MaxRank),
             MaxRank)

CallMeanAveragePrecision ==
    CallEnds("mean_average_precision",
             mean_average_precision(queries_result, relevance_judgments), 0)

\* ndcg_at_k(queries_result, relevance_judgments, k); __main__ leaves k at
\* its default, 15
CallNdcgAtK ==
    \E k \in Cutoffs :
        CallEnds("ndcg_at_k",
                 ndcg_at_k(queries_result, relevance_judgments, k), k)

CallBpref ==
    CallEnds("bpref", bpref_call(queries_result, relevance_judgments), 0)

CallMetric ==
    \/ CallPrecision
    \/ CallRecall
    \/ CallRPrecision
    \/ CallPrecisionAtK
    \/ CallMeanAveragePrecision
    \/ CallNdcgAtK
    \/ CallBpref

(***************************************************************************)
(* SpecEval: the evaluator program.  The results file has been read into   *)
(* queries_result; the qrels file is read line by line, and then a metric  *)
(* function is called on the two maps.                                     *)
(***************************************************************************)
EvalQrelsLines ==
    { <<q, 0, e[1], e[2]>> :
        q \in {1, 2}, e \in { <<"A", 0>>, <<"A", 1>>, <<"B", 2>> } }

\* the maps of results files: none, one query, two queries; scores falling,
\* rising, with a document that no qrels line of the family judges
ResultsMaps ==
    { <<>>,
      << <<1, << <<"A", 3>>, <<"B", 2>>, <<"X", 1>> >> >> >>,
      << <<1, << <<"X", 1>>, <<"A", 2>>, <<"B", 3>> >> >> >>,
      << <<1, << <<"A", 2>> >> >>, <<2, << <<"B", 2>>, <<"A", 1>> >> >> >>,
      << <<2, << <<"X", 1>> >> >> >> }

InitEval ==
    /\ pc = "loading"
    /\ qrels_lines \in SeqsUpTo(EvalQrelsLines, MaxQrelsLines)
    /\ queries_result \in ResultsMaps
    /\ consumed = <<>>
    /\ current_query_id = NoQuery
    /\ relevance_judgments = <<>>
    /\ metric = <<>>
    /\ cutoff = 0
    /\ error = ""
    /\ NormIdle /\ IndexIdle /\ QueryIdle

NextEval == ReadQrelsLine \/ CloseQrels \/ CallMetric

SpecEval == InitEval /\ [][NextEval]_vars

\* the lines of a query stand together in the file
Contiguous ==
    \A i, j, l \in 1..Len(consumed) :
        (i < j /\ j < l /\ consumed[i][1] = consumed[l][1])
            => consumed[j][1] = consumed[i][1]

\* the queries of both maps in which a relevant document has a higher score
\* than a document judged with grade 0 in the file
PreferredPairs ==
    { <<i, j>> \in (1..Len(consumed)) \X (1..Len(consumed)) :
        /\ consumed[i][1] = consumed[j][1]
        /\ consumed[i][4] > 0
        /\ consumed[j][4] = 0
        /\ HasKey(queries_result, consumed[i][1])
        /\ GetOr(Get(queries_result, consumed[i][1]), consumed[j][3], 0)
               < GetOr(Get(queries_result, consumed[i][1]), consumed[i][3], 0) }

\* C11 as stated: the loader keeps the documents judged with grade 0 in the
\* map of their query, so that bpref finds judged-non-relevant documents and
\* its value is above 0 where a relevant document is scored above one of
\* them.
C11_LoaderKeepsNonRelevant ==
    (pc # "loading" /\ JudgedOnce /\ Contiguous) =>
        /\ \A i \in 1..Len(consumed) :
               consumed[i][4] = 0 =>
                   /\ HasKey(relevance_judgments, consumed[i][1])
                   /\ HasKey(Get(relevance_judgments, consumed[i][1]),
                             consumed[i][3])
        /\ (pc = "bpref" /\ error = "" /\ PreferredPairs # {}) => metric[1] > 0

\* what the evaluator does instead: no loaded map holds a grade of 0, and
\* bpref returns 0 on every loaded qrels map
BprefIsZeroOnLoadedQrels ==
    /\ \A i \in 1..Len(relevance_judgments) :
           \A j \in 1..Len(relevance_judgments[i][2]) :
               relevance_judgments[i][2][j][2] # 0
    /\ pc = "bpref" => (error = "" /\ metric[1] = 0)

----------------------------------------------------------------------------
(***************************************************************************)
(* SpecCalls: a metric function called on a results map and a qrels map.   *)
(* The documents are A, B, X.  The results map holds no query, query 1     *)
(* with the documents in any order and with scores that fall or rise with  *)
(* the order, or queries 1 and 2.  The qrels map holds for query 1 no      *)
(* entry or the grades 0, 1, 2 of some of the documents, and for query 2   *)
(* no entry, an empty entry or an entry with a relevant document.          *)
(***************************************************************************)
CallDocs == {"A", "B", "X"}

ArgRankings ==
    { s \in SeqsUpTo(CallDocs, MaxRetrieved) : s # <<>> /\ Injective(s) }

ArgResults ==
    { <<>> }
    \cup { << <<1, [ i \in 1..Len(s) |-> <<s[i], Len(s) + 1 - i>> ]>> >> :
             s \in ArgRankings }
    \cup { << <<1, [ i \in 1..Len(s) |-> <<s[i], i>> ]>> >> : s \in ArgRankings }
    \cup { << <<1, << <<"A", 2>>, <<"B", 1>> >> >>,
              <<2, << <<"B", 2>>, <<"X", 1>> >> >> >>,
           << <<2, << <<"B", 1>> >> >>, <<1, << <<"A", 1>> >> >> >> }

ArgJudgments ==
    { SelectSeq(<< <<"A", g[1]>>, <<"B", g[2]>>, <<"X", g[3]>> >>,
                LAMBDA e : e[2] >= 0) :
        g \in { h \in [1..3 -> {-1, 0, 1, 2}] : h[3] <= 0 } }

ArgQrels ==
    { first \o second :
        first \in { <<>> } \cup { << <<1, j>> >> : j \in ArgJudgments },
        second \in { <<>>,
                     << <<2, <<>> >> >>,
                     << <<2, << <<"B", 1>> >> >> >>,
                     << <<2, << <<"B", 1>>, <<"X", 0>> >> >> >> } }

InitCalls ==
    /\ pc = "called"
    /\ queries_result \in ArgResults
    /\ relevance_judgments \in ArgQrels
    /\ metric = <<>>
    /\ cutoff = 0
    /\ qrels_lines = <<>> /\ consumed = <<>> /\ current_query_id = NoQuery
    /\ error = ""
    /\ NormIdle /\ IndexIdle /\ QueryIdle

NextCalls == CallMetric

SpecCalls == InitCalls /\ [][NextCalls]_vars

MetricNames ==
    {"precision", "recall", "r_precision", "precision_at_k",
     "mean_average_precision", "ndcg_at_k", "bpref"}

\* the grade of a document in the qrels entry of a query, -1 where there is
\* none
GradeOf(query_id, doc) ==
    IF HasKey(relevance_judgments, query_id)
    THEN GetOr(Get(relevance_judgments, query_id), doc, -1)
    ELSE -1

\* the documents of a query with a grade above 0
RelevantOf(query_id) ==
    IF HasKey(relevance_judgments, query_id)
    THEN { d \in Keys(Get(relevance_judgments, query_id)) :
             GradeOf(query_id, d) > 0 }
    ELSE {}

\* every query of the results has a retrieved document and a relevant
\* document
EveryQueryHasRelevant ==
    \A i \in 1..Len(queries_result) :
        /\ queries_result[i][2] # <<>>
        /\ RelevantOf(queries_result[i][1]) # {}

WithinBounds(v) == v[2] > 0 /\ 0 <= v[1] /\ v[1] <= v[2]

\* C12 as stated: where every query of the results has a relevant document
\* in the qrels, each of the seven metric functions returns a value, and the
\* value is between 0 and 1.
C12_MetricsWithinBounds ==
    (pc \in MetricNames /\ EveryQueryHasRelevant) =>
        (error = "" /\ WithinBounds(metric))

\* what the functions do: a value that is returned is between 0 and 1, and
\* under the condition of C12 one is returned where the results are not
\* empty and, for bpref, where every query of the qrels is in the results
MetricBoundsWhereReturned ==
    pc \in MetricNames =>
        /\ error = "" => WithinBounds(metric)
        /\ ( /\ EveryQueryHasRelevant
             /\ queries_result # <<>> \/ pc \in {"ndcg_at_k", "bpref"}
             /\ Keys(relevance_judgments) \subseteq Keys(queries_result)
                    \/ pc # "bpref" )
               => error = ""

\* the place of the j-th record of a query of the results when the records
\* are put in the order of falling scores (records of one score in the
\* order of the results map)
PlaceByScore(retrieved, j) ==
    1 + Cardinality({ l \in 1..Len(retrieved) :
                        \/ retrieved[l][2] > retrieved[j][2]
                        \/ retrieved[l][2] = retrieved[j][2] /\ l < j })

\* the gain at a place of the list: the grade of the document that stands
\* there, 0 for a document without a grade or a place beyond the list
GainAtPlace(query_id, retrieved, place) ==
    IF \E j \in 1..Len(retrieved) : PlaceByScore(retrieved, j) = place
    THEN LET j == CHOOSE l \in 1..Len(retrieved) :
                      PlaceByScore(retrieved, l) = place
             grade == GradeOf(query_id, retrieved[j][1])
         IN  IF grade < 0 THEN 0 ELSE grade
    ELSE 0

\* the grade at a place of the ideal list: the grades of the qrels entry of
\* the query from the highest down, 0 beyond them
IdealAtPlace(query_id, place) ==
    LET judged == GetOr(relevance_judgments, query_id, <<>>)
        grades == { judged[j][2] : j \in 1..Len(judged) }
        atleast(g) == Cardinality({ j \in 1..Len(judged) : judged[j][2] >= g })
        above(g) == Cardinality({ j \in 1..Len(judged) : judged[j][2] > g })
    IN  IF \E g \in grades : above(g) < place /\ place <= atleast(g)
        THEN CHOOSE g \in grades : above(g) < place /\ place <= atleast(g)
        ELSE 0

\* a gain weighted by its place: by 1 at place 1, by 1 / log2(place + 1) at
\* a later place (floats as whole multiples of 1 / Scale)
Discounted(gain, place) ==
    IF place = 1 THEN gain * Scale
    ELSE (gain * Scale * Scale)
         \div ((LnFixed(place + 1, 1) * Scale) \div LnFixed(2, 1))

RECURSIVE SumBetween(_, _, _)
\* f[lo] + ... + f[hi], by halves
SumBetween(f, lo, hi) ==
    IF lo > hi THEN 0
    ELSE IF lo = hi THEN f[lo]
    ELSE SumBetween(f, lo, (lo + hi) \div 2)
         + SumBetween(f, ((lo + hi) \div 2) + 1, hi)

\* f[1] + ... + f[n]
SumUpTo(f, n) == SumBetween(f, 1, n)

ExpectedDcg(query_id, retrieved, k) ==
    SumUpTo([ place \in 1..k |->
                Discounted(GainAtPlace(query_id, retrieved, place), place) ], k)

ExpectedIdcg(query_id, k) ==
    SumUpTo([ place \in 1..k |->
                Discounted(IdealAtPlace(query_id, place), place) ], k)

ExpectedNdcg(query_id, retrieved, k) ==
    IF ExpectedIdcg(query_id, k) = 0 THEN 0
    ELSE (ExpectedDcg(query_id, retrieved, k) * Scale)
         \div ExpectedIdcg(query_id, k)

\* C13: ndcg_at_k never raises; for each query the retrieved documents are
\* taken by falling score whatever their order in the results, the gains
\* are their grades (0 without a grade) at the first k places, place 1
\* weighted by 1 and a later place i by 1 / log2(i + 1); the ideal value is
\* the same sum over the grades of the query's qrels entry from the highest
\* down; the query's value is DCG / IDCG, 0 where IDCG is 0 (also for a
\* query without a qrels entry), and the mean over the queries is returned.
C13_NdcgAsDefined ==
    pc = "ndcg_at_k" =>
        /\ error = ""
        /\ IF queries_result = <<>> THEN metric[1] = 0
           ELSE FracEq(metric,
                    Frac(SumUpTo([ i \in 1..Len(queries_result) |->
                                     ExpectedNdcg(queries_result[i][1],
                                                  queries_result[i][2], cutoff) ],
                                 Len(queries_result)),
                         Len(queries_result) * Scale))

\* the documents come with rising scores, three of them have a grade and
\* only two places count; the value lies strictly between 0 and 1
C13_Witness ==
    /\ pc = "ndcg_at_k"
    /\ cutoff = 2
    /\ queries_result = << <<1, << <<"X", 1>>, <<"A", 2>>, <<"B", 3>> >> >> >>
    /\ relevance_judgments
           = << <<1, << <<"A", 2>>, <<"B", 1>>, <<"X", 0>> >> >> >>
    /\ 0 < metric[1] /\ metric[1] < metric[2]

\* the documents in the qrels entry of a query
JudgedOf(query_id) ==
    IF HasKey(relevance_judgments, query_id)
    THEN Keys(Get(relevance_judgments, query_id))
    ELSE {}

\* among the first n records of a query of the results, those of a
\* relevant document
HitsIn(query_id, retrieved, n) ==
    { j \in 1..Len(retrieved) :
        j <= n /\ retrieved[j][1] \in RelevantOf(query_id) }

\* the mean over the queries of the results of one fraction per query
MeanOverQueries(f) ==
    FracDiv(FracSum([ i \in 1..Len(queries_result) |-> f[i] ]),
            Len(queries_result))

\* the value of a metric when "relevant" is read as "graded above 0"
ExpectedMetric(name) ==
    MeanOverQueries(
        [ i \in 1..Len(queries_result) |->
            LET query_id == queries_result[i][1]
                retrieved == queries_result[i][2]
                n == Len(retrieved)
                R == Cardinality(RelevantOf(query_id))
            IN  CASE name = "precision" ->
                       Frac(Cardinality(HitsIn(query_id, retrieved, n)), n)
                  [] name = "recall" ->
                       Frac(Cardinality(HitsIn(query_id, retrieved, n)), R)
                  [] name = "r_precision" ->
                       Frac(Cardinality(HitsIn(query_id, retrieved, R)), R)
                  [] name = "precision_at_k" ->
                       Frac(Cardinality(HitsIn(query_id, retrieved, MaxRank)),
                            MaxRank)
                  [] name = "mean_average_precision" ->
                       FracDiv(
                           FracSum([ j \in 1..n |->
                               IF j \in HitsIn(query_id, retrieved, n)
                               THEN Frac(Cardinality(HitsIn(query_id, retrieved, j)), j)
                               ELSE Frac(0, 1) ]),
                           R) ])

RelevanceMetrics ==
    {"precision", "recall", "r_precision", "precision_at_k",
     "mean_average_precision"}

\* C14: in every map the loader produces, the documents of a query's entry
\* are the documents graded above 0, so the membership test and the
\* membership-and-grade test pick the same documents, and each of the five
\* metrics returns the value it has when "relevant" is read as "graded
\* above 0".
C14_OneDefinitionOfRelevant ==
    /\ \A i \in 1..Len(relevance_judgments) :
           JudgedOf(relevance_judgments[i][1])
               = RelevantOf(relevance_judgments[i][1])
    /\ (pc \in RelevanceMetrics /\ error = "") =>
           FracEq(metric, ExpectedMetric(pc))

\* precision_at_k has counted a relevant document and not the document
\* that the file judges with grade 0, both among the first k retrieved
C14_Witness ==
    /\ pc = "precision_at_k"
    /\ error = ""
    /\ consumed = << <<1, 0, "A", 0>>, <<1, 0, "B", 2>> >>
    /\ queries_result = << <<1, << <<"A", 3>>, <<"B", 2>>, <<"X", 1>> >> >> >>
    /\ FracEq(metric, Frac(1, MaxRank))

\* the queries of the results (by their place) without a qrels entry, and
\* those whose qrels entry holds no document
MissingEntries ==
    { i \in 1..Len(queries_result) :
        ~HasKey(relevance_judgments, queries_result[i][1]) }

EmptyEntries ==
    { i \in 1..Len(queries_result) :
        /\ HasKey(relevance_judgments, queries_result[i][1])
        /\ Get(relevance_judgments, queries_result[i][1]) = <<>> }

DividesByRelevant == {"recall", "r_precision", "mean_average_precision"}

\* C19 as stated: a query of the results with an empty qrels entry ends
\* recall, r_precision and mean_average_precision in an error, a query of
\* the results without a qrels entry ends all five functions in an error,
\* and the five functions return a value exactly when every query of the
\* results has a relevant document in the qrels (read here for results that
\* hold a query).
C19_ValueIffEveryQueryHasRelevant ==
    (pc \in RelevanceMetrics /\ queries_result # <<>>) =>
        /\ (EmptyEntries # {} /\ pc \in DividesByRelevant) => error # ""
        /\ MissingEntries # {} => error # ""
        /\ error = "" <=> EveryQueryHasRelevant

\* C19 amended: recall, r_precision and mean_average_precision return a
\* value exactly when the results hold a query and every query of the
\* results has a non-empty qrels entry; precision and precision_at_k return
\* a value exactly when the results hold a query and every query of the
\* results has a qrels entry, empty or not.  Otherwise the call ends with
\* the error of the first such query in the order of the results, KeyError
\* for a missing entry and ZeroDivisionError for an empty one, and with
\* ZeroDivisionError where the results hold no query.
C19_ValueIffEntriesSuffice ==
    pc \in RelevanceMetrics =>
        LET fatal == IF pc \in DividesByRelevant
                     THEN MissingEntries \cup EmptyEntries
                     ELSE MissingEntries
            first == CHOOSE i \in fatal : \A j \in fatal : i <= j
        IN  /\ error = "" <=> (queries_result # <<>> /\ fatal = {})
            /\ fatal # {} =>
                   error = IF first \in MissingEntries THEN "KeyError"
                           ELSE "ZeroDivisionError"
            /\ queries_result = <<>> => error = "ZeroDivisionError"

\* recall has met a query whose judgments all had grade 0
C19_Witness ==
    /\ pc = "recall"
    /\ error = "ZeroDivisionError"
    /\ consumed = << <<1, 0, "A", 0>> >>
    /\ relevance_judgments = << <<1, <<>> >> >>
    /\ queries_result = << <<1, << <<"A", 3>>, <<"B", 2>>, <<"X", 1>> >> >> >>

----------------------------------------------------------------------------
(***************************************************************************)
(* Claims about ranking.  In SpecQuery the documents that hold a term are  *)
(* the keys of the term's posting list in the index file (C3), and the     *)
(* corpus behind an index file is the documents 1..NumDocs of the posting  *)
(* lists with one more document that is empty after normalisation, which   *)
(* is in no posting list; in SpecIndex the corpus is the variable          *)
(* documents.                                                              *)
(***************************************************************************)
SingleTermAnswered == pc = "answered" /\ Len(processed_query) = 1

\* the documents of the corpus behind the index file in which a term occurs
HoldersInFile(t) ==
    IF HasKey(loaded_index, t) THEN Keys(Get(loaded_index, t)) ELSE {}

CorpusDocs == 1..(NumDocs + 1)

OutputDocs == { RecordDoc(output[i]) : i \in 1..Len(output) }

\* C15 as stated: for a query of one term, a document without the term
\* never appears in the result and every document with the term is ranked.
C15_MonotonicRanking ==
    SingleTermAnswered =>
        \A d1 \in HoldersInFile(processed_query[1]) :
            \A d2 \in CorpusDocs \ HoldersInFile(processed_query[1]) :
                d2 \notin OutputDocs /\ d1 \in OutputDocs

\* C15 amended: for a query of one term t, no document without t appears in
\* the result; the result has min(15, number of documents with t) records,
\* each of another document; a document with t is left out only below 15
\* ranked documents whose weight for t is at least its own, so every
\* document with t is ranked where at most 15 documents hold t.
C15_MonotonicWithinTop ==
    SingleTermAnswered =>
        LET t == processed_query[1]
        IN  /\ OutputDocs \subseteq HoldersInFile(t)
            /\ Len(output) = MinOf(MaxRank, Cardinality(HoldersInFile(t)))
            /\ Cardinality(OutputDocs) = Len(output)
            /\ \A d1 \in HoldersInFile(t) \ OutputDocs :
                   /\ Len(output) = MaxRank
                   /\ \A i \in 1..Len(output) :
                          RecordScore(output[i]) >= Get(Get(loaded_index, t), d1)
            /\ Cardinality(HoldersInFile(t)) <= MaxRank
                   => OutputDocs = HoldersInFile(t)

\* more documents hold the term than a result has records: fifteen are
\* ranked and one that holds the term is left out
C15_Witness ==
    /\ SingleTermAnswered
    /\ processed_query = <<W_fast>>
    /\ Cardinality(HoldersInFile(W_fast)) > MaxRank
    /\ Len(output) = MaxRank
    /\ HoldersInFile(W_fast) \ OutputDocs # {}
    /\ CorpusDocs \ HoldersInFile(W_fast) # {}

\* the documents of the corpus in which a term occurs
Holders(t) == { d \in Keys(documents) : t \in Range(Get(documents, d)) }

\* the stored weight of a term in a document that holds it
WeightOf(t, d) == Get(Get(weights_index, t), d)

TermCount(t, d) ==
    Cardinality({ i \in 1..Len(Get(documents, d)) : Get(documents, d)[i] = t })

\* the score of a document in the whole result of the query
ResultScore(d) == Get(relevant_documents, d)

\* C16: of two documents of a corpus that hold a term equally often, the
\* shorter one has a stored weight for the term that is at least the longer
\* one's, and scores at least as high for the query of that one term.
C16_LengthPenalty ==
    (IndexBuilt /\ Len(documents) > 0) =>
        \A t \in Keys(weights_index) :
            \A d1, d2 \in Holders(t) :
                ( /\ TermCount(t, d1) = TermCount(t, d2)
                  /\ Len(Get(documents, d1)) < Len(Get(documents, d2)) )
                => /\ WeightOf(t, d1) >= WeightOf(t, d2)
                   /\ (SingleTermAnswered /\ processed_query[1] = t)
                          => ResultScore(d1) >= ResultScore(d2)

\* the term once in a document of one term and once in a document of two
C16_Witness ==
    /\ SingleTermAnswered
    /\ processed_query = <<W_run>>
    /\ documents = << <<1, <<W_run>>>>, <<2, <<W_run, W_fast>>>> >>
    /\ ResultScore(1) > ResultScore(2)

\* C17: every term of the index has between 1 and N documents in its
\* posting list, N the number of processed documents with the empty ones; a
\* document without terms is in no posting list; the argument of the
\* logarithm, (2N + 2) / (2 df + 1), is above 1; the idf is above 0, also
\* for df = N; every stored weight is above 0.
C17_IdfPositive ==
    (pc \in {"idf", "weighted", "written", "loaded", "answered"}) =>
        /\ Len(idf) = Len(inverted_index)
        /\ \A i \in 1..Len(idf) :
               LET df == Len(Get(inverted_index, idf[i][1]))
                   N == Len(documents)
               IN  /\ 1 <= df /\ df <= N
                   /\ df = Cardinality(Holders(idf[i][1]))
                   /\ 2 * N + 2 > 2 * df + 1
                   /\ idf[i][2] > 0
        /\ \A d \in Keys(documents) :
               Get(documents, d) = <<>> =>
                   \A i \in 1..Len(inverted_index) :
                       ~HasKey(inverted_index[i][2], d)
        /\ IndexBuilt =>
               \A i \in 1..Len(weights_index) :
                   \A j \in 1..Len(weights_index[i][2]) :
                       weights_index[i][2][j][2] > 0

\* a term that every document holds (df = N)
C17_Witness ==
    /\ pc = "weighted"
    /\ documents = << <<1, <<W_run>>>>, <<2, <<W_run>>>> >>
    /\ Len(Get(inverted_index, W_run)) = Len(documents)
    /\ Get(idf, W_run) > 0

\* where a document entered the accumulator: the place in the query of the
\* first term whose posting list holds it, and its place in that list
FirstAdded(d) ==
    LET p == CHOOSE i \in 1..Len(processed_query) :
                 /\ HasKey(loaded_index, processed_query[i])
                 /\ HasKey(Get(loaded_index, processed_query[i]), d)
                 /\ \A j \in 1..(i - 1) :
                        ~( /\ HasKey(loaded_index, processed_query[j])
                           /\ HasKey(Get(loaded_index, processed_query[j]), d) )
    IN  <<p, IndexOfKey(Get(loaded_index, processed_query[p]), d)>>

\* C18: every posting list is stored by falling weight, and documents of
\* equal score stand in the ranked list in the order in which they entered
\* the accumulator: by the first query term that has them, then by their
\* place in that term's posting list.
C18_TiesInInsertionOrder ==
    /\ IndexBuilt =>
           \A i \in 1..Len(weights_index) :
               \A j \in 1..(Len(weights_index[i][2]) - 1) :
                   weights_index[i][2][j][2] >= weights_index[i][2][j + 1][2]
    /\ pc = "answered" =>
           \A i, j \in 1..Len(output) :
               (i < j /\ output[i][4] = output[j][4]) =>
                   LET a == FirstAdded(output[i][2])
                       b == FirstAdded(output[j][2])
                   IN  a[1] < b[1] \/ (a[1] = b[1] /\ a[2] < b[2])

\* two documents of equal score, the one with the higher id ranked first
C18_Witness ==
    /\ pc = "answered"
    /\ processed_query = <<W_run, W_fast>>
    /\ documents = << <<1, <<W_fast>>>>, <<2, <<W_run>>>> >>
    /\ Len(output) = 2
    /\ output[1][2] = 2 /\ output[2][2] = 1
    /\ output[1][4] = output[2][4]

====
